---- MODULE Spec2Model ----
(***************************************************************************)
(* Model of flight-routes' Graph class (src/algorithm.py): a directed      *)
(* graph of airports kept in a defaultdict(list), Kosaraju's two-pass SCC  *)
(* decomposition, the compressed (condensed) graph and the count of        *)
(* additional routes.                                                      *)
(*                                                                         *)
(* A Python dict is modelled as a sequence of [key, val] entries in key    *)
(* insertion order, so that iteration order and the keys a defaultdict     *)
(* creates on lookup are part of the state.  A Python list is a sequence;  *)
(* index i of a list of length n is valid iff -n <= i < n and a negative   *)
(* index counts from the end.  An exception is the "error" field of a      *)
(* result; mutations made before the raise are kept.                       *)
(***************************************************************************)
EXTENDS Integers, Sequences, FiniteSets, TLC

\* Bounds of the exploration.
MaxVertices == 3
MaxEdges == 2
MaxBatch == 2
MaxRawVertices == 2
MaxRawEdges == 1

\* Airport codes of the sample (src/test.py); the first n are registered.
AirportCodes == <<"DSM", "ORD", "BGI", "LGA", "TLV", "DEL", "DOH">>

VARIABLES airports, vertices, graph, lastCall, result, sccs, transposed,
          compressed, dup, dupResult

vars == <<airports, vertices, graph, lastCall, result, sccs, transposed,
          compressed, dup, dupResult>>

NoError == "none"

-----------------------------------------------------------------------------
\* Python containers

Range(s) == {s[i] : i \in 1..Len(s)}

HasKey(d, k) == \E i \in 1..Len(d) : d[i].key = k

Keys(d) == {d[i].key : i \in 1..Len(d)}

\* d[k] of a defaultdict(list), read only: the list stored, [] for no key.
Get(d, k) ==
  IF HasKey(d, k) THEN d[CHOOSE i \in 1..Len(d) : d[i].key = k].val ELSE <<>>

\* The dict after the lookup d[k] of a defaultdict(list): a missing key is
\* inserted, last in iteration order, with an empty list.
Touch(d, k) == IF HasKey(d, k) THEN d ELSE Append(d, [key |-> k, val |-> <<>>])

valid_index(i, n) == -n <= i /\ i < n

list_pos(i, n) == IF i >= 0 THEN i + 1 ELSE n + i + 1

list_get(l, i) == l[list_pos(i, Len(l))]

list_set(l, i, x) == [l EXCEPT ![list_pos(i, Len(l))] = x]

-----------------------------------------------------------------------------
\* class Graph

\* self.graph[from_airport].append(to_airport)
add_edge(d, from_airport, to_airport) ==
  LET d1 == Touch(d, from_airport)
  IN  [i \in 1..Len(d1) |->
         IF d1[i].key = from_airport
         THEN [d1[i] EXCEPT !.val = Append(@, to_airport)] ELSE d1[i]]

\* for from_airport, to_airport in routes: add_edge(airports[..], airports[..])
RECURSIVE add_routes(_, _, _)
add_routes(a, d, routes) ==
  IF routes = <<>> THEN [graph |-> d, error |-> NoError]
  ELSE LET r == Head(routes)
       IN  IF r[1] \notin DOMAIN a \/ r[2] \notin DOMAIN a
           THEN [graph |-> d, error |-> "KeyError"]
           ELSE add_routes(a, add_edge(d, a[r[1]], a[r[2]]), Tail(routes))

neighbors_but_last(d, vertex) ==
  SubSeq(Get(d, vertex), 1, Len(Get(d, vertex)) - 1)

\* for neighbor in self.graph[vertex]: the list the loop runs over
neighbors(d, vertex) == Get(d, vertex)

\* visited[vertex] = True, and the lookup self.graph[vertex] of the loop
enter(st, vertex) ==
  [st EXCEPT !.visited = list_set(@, vertex, TRUE), !.graph = Touch(@, vertex)]

\* stack.append(vertex), reached unless the loop raised
finish(st, vertex) ==
  IF st.error # NoError THEN st ELSE [st EXCEPT !.stack = Append(@, vertex)]

\* Variants of pass 1.  st = [graph, visited, stack, error].
RECURSIVE dfs_preorder(_, _), dfs_preorder_loop(_, _, _)
dfs_preorder(st, vertex) ==
  dfs_preorder_loop(finish(enter(st, vertex), vertex), vertex, 1)
dfs_preorder_loop(st, vertex, i) ==
  IF st.error # NoError \/ i > Len(neighbors(st.graph, vertex)) THEN st
  ELSE dfs_preorder_loop(
         IF ~valid_index(neighbors(st.graph, vertex)[i], Len(st.visited))
         THEN [st EXCEPT !.error = "IndexError"]
         ELSE IF ~list_get(st.visited, neighbors(st.graph, vertex)[i])
         THEN dfs_preorder(st, neighbors(st.graph, vertex)[i])
         ELSE st,
         vertex, i + 1)

RECURSIVE dfs_guarded(_, _), dfs_guarded_loop(_, _, _)
dfs_guarded(st, vertex) ==
  finish(dfs_guarded_loop(enter(st, vertex), vertex, 1), vertex)
dfs_guarded_loop(st, vertex, i) ==
  IF st.error # NoError \/ i > Len(neighbors(st.graph, vertex)) THEN st
  ELSE dfs_guarded_loop(
         IF neighbors(st.graph, vertex)[i] >= Len(st.visited)
         THEN st
         ELSE IF ~valid_index(neighbors(st.graph, vertex)[i], Len(st.visited))
         THEN [st EXCEPT !.error = "IndexError"]
         ELSE IF ~list_get(st.visited, neighbors(st.graph, vertex)[i])
         THEN dfs_guarded(st, neighbors(st.graph, vertex)[i])
         ELSE st,
         vertex, i + 1)

\* _depth_first_search(vertex, visited, stack) on self.graph: mark, recurse
\* into the unvisited neighbours in list order, then push the vertex.
\* visited[neighbor] raises IndexError for an index outside the list, and
\* the raise ends every enclosing loop.  st = [graph, visited, stack, error].
RECURSIVE depth_first_search(_, _), depth_first_search_loop(_, _, _)
depth_first_search(st, vertex) ==
  finish(depth_first_search_loop(enter(st, vertex), vertex, 1), vertex)
depth_first_search_loop(st, vertex, i) ==
  IF st.error # NoError \/ i > Len(neighbors(st.graph, vertex)) THEN st
  ELSE depth_first_search_loop(
         IF ~valid_index(neighbors(st.graph, vertex)[i], Len(st.visited))
         THEN [st EXCEPT !.error = "IndexError"]
         ELSE IF ~list_get(st.visited, neighbors(st.graph, vertex)[i])
         THEN depth_first_search(st, neighbors(st.graph, vertex)[i])
         ELSE st,
         vertex, i + 1)

\* for i in range(self.vertices): if not visited[i]: _depth_first_search(...)
RECURSIVE first_pass(_, _)
first_pass(st, i) ==
  IF st.error # NoError \/ i >= Len(st.visited) THEN st
  ELSE first_pass(IF ~list_get(st.visited, i) THEN depth_first_search(st, i)
                  ELSE st,
                  i + 1)

transposed_graph_add_edge_unreversed(t, from_airport, to_airport) ==
  add_edge(t, from_airport, to_airport)

\* transposed_graph.add_edge(to_airport, from_airport)
transposed_graph_add_edge(t, from_airport, to_airport) ==
  add_edge(t, to_airport, from_airport)

\* for to_airport in self.graph[from_airport]: ...
RECURSIVE transpose_entry(_, _, _)
transpose_entry(t, from_airport, tos) ==
  IF tos = <<>> THEN t
  ELSE transpose_entry(transposed_graph_add_edge(t, from_airport, Head(tos)),
                       from_airport, Tail(tos))

\* for from_airport in self.graph: ...  (keys in iteration order, from k on)
RECURSIVE transpose_from(_, _, _)
transpose_from(t, d, k) ==
  IF k > Len(d) THEN t
  ELSE transpose_from(transpose_entry(t, d[k].key, d[k].val), d, k + 1)

\* _transpose_graph: a new Graph(self.airports), its dict built from empty.
transpose_graph(d) == transpose_from(<<>>, d, 1)

\* visited[vertex] = True; component.append(vertex); self.graph[vertex]
enter_transposed(st, vertex) ==
  [st EXCEPT !.visited = list_set(@, vertex, TRUE),
             !.component = Append(@, vertex),
             !.graph = Touch(@, vertex)]

\* _depth_first_search_transposed(vertex, visited, component), run on the
\* transposed Graph.  st = [graph, visited, component, error].
RECURSIVE depth_first_search_transposed(_, _), depth_first_search_transposed_loop(_, _, _)
depth_first_search_transposed(st, vertex) ==
  depth_first_search_transposed_loop(enter_transposed(st, vertex), vertex, 1)
depth_first_search_transposed_loop(st, vertex, i) ==
  IF st.error # NoError \/ i > Len(neighbors(st.graph, vertex)) THEN st
  ELSE depth_first_search_transposed_loop(
         IF ~valid_index(neighbors(st.graph, vertex)[i], Len(st.visited))
         THEN [st EXCEPT !.error = "IndexError"]
         ELSE IF ~list_get(st.visited, neighbors(st.graph, vertex)[i])
         THEN depth_first_search_transposed(st, neighbors(st.graph, vertex)[i])
         ELSE st,
         vertex, i + 1)

unvisited_always(visited, vertex) == TRUE

\* The test of the second pass's loop: if not visited[vertex]
unvisited(visited, vertex) == ~list_get(visited, vertex)

\* component = []; transposed_graph._depth_first_search_transposed(vertex,
\* visited, component); sccs.append(component)
\* p = [graph (the transposed Graph's), visited, sccs, error]
extract_component(p, r) ==
  [graph |-> r.graph, visited |-> r.visited,
   sccs |-> IF r.error = NoError THEN Append(p.sccs, r.component) ELSE p.sccs,
   error |-> r.error]

\* while stack: vertex = stack.pop(); if not visited[vertex]: ...
RECURSIVE second_pass(_, _)
second_pass(p, stack) ==
  IF p.error # NoError \/ stack = <<>> THEN p
  ELSE second_pass(
         IF unvisited(p.visited, stack[Len(stack)])
         THEN extract_component(p, depth_first_search_transposed(
                [graph |-> p.graph, visited |-> p.visited,
                 component |-> <<>>, error |-> NoError], stack[Len(stack)]))
         ELSE p,
         SubSeq(stack, 1, Len(stack) - 1))

graph_after_in_place(own, other) == other

\* What find_strongly_connected_components leaves in self.graph: the second
\* pass runs on transposed_graph, another Graph object.
graph_after(own, other) == own

\* What the call returns or raises, given the outcome p1 of the first pass,
\* the transposed dict t and the outcome p2 of the second pass.
scc_outcome(p1, t, p2) ==
  IF p1.error # NoError
  THEN [graph |-> p1.graph, transposed |-> <<>>, sccs |-> <<>>,
        error |-> p1.error]
  ELSE [graph |-> graph_after(p1.graph, p2.graph), transposed |-> t,
        sccs |-> p2.sccs, error |-> p2.error]

\* visited = [False] * self.vertices; sccs = []; the second pass
scc_second(p1, t) ==
  scc_outcome(p1, t,
              second_pass([graph |-> t,
                           visited |-> [i \in 1..Len(p1.visited) |-> FALSE],
                           sccs |-> <<>>, error |-> NoError],
                          IF p1.error # NoError THEN <<>> ELSE p1.stack))

\* transposed_graph = self._transpose_graph()
scc_transpose(p1) == scc_second(p1, transpose_graph(p1.graph))

\* find_strongly_connected_components.  Returns the graph dict as the call
\* leaves it, the transposed dict as _transpose_graph returned it, the list
\* of components and the error raised, if any.
find_strongly_connected_components(d, n) ==
  scc_transpose(first_pass([graph |-> d, visited |-> [i \in 1..n |-> FALSE],
                            stack |-> <<>>, error |-> NoError], 0))

\* The first index i with airport in components[i], 0 for none.
index_first(components, airport) ==
  IF \E i \in 1..Len(components) : airport \in Range(components[i])
  THEN CHOOSE i \in 1..Len(components) :
         /\ airport \in Range(components[i])
         /\ \A j \in 1..(i - 1) : airport \notin Range(components[j])
  ELSE 0

\* The last index i with airport in components[i].
index_last(components, airport) ==
  CHOOSE i \in 1..Len(components) :
    /\ airport \in Range(components[i])
    /\ \A j \in (i + 1)..Len(components) : airport \notin Range(components[j])

\* scc_map: for idx, scc in enumerate(sccs): for airport in scc:
\* scc_map[airport] = idx  (0-based; a later component overwrites).
scc_map(components) ==
  [airport \in UNION {Range(components[i]) : i \in 1..Len(components)} |->
     index_last(components, airport) - 1]

\* The edges of a graph dict, as (from, to) pairs.
Edges(d) ==
  UNION {{<<d[k].key, d[k].val[i]>> : i \in 1..Len(d[k].val)} : k \in 1..Len(d)}

every_edge(m, from_airport, to_airport) == TRUE

\* if scc_map[from_airport] != scc_map[to_airport]
between_different_sccs(m, from_airport, to_airport) ==
  m[from_airport] # m[to_airport]

NoCompressed == [u \in {} |-> {}]

\* compressed_graph[scc_map[from_airport]].add(scc_map[to_airport]) for every
\* edge of E that passes the test
compressed_of(m, E) ==
  [u \in {m[e[1]] : e \in {x \in E : between_different_sccs(m, x[1], x[2])}} |->
     {m[e[2]] : e \in {x \in E : /\ m[x[1]] = u
                                 /\ between_different_sccs(m, x[1], x[2])}}]

\* The loop over the edges with the map m; scc_map[x] raises KeyError for an
\* airport in no component.
compress(m, E) ==
  IF \E e \in E : e[1] \notin DOMAIN m \/ e[2] \notin DOMAIN m
  THEN [graph |-> NoCompressed, error |-> "KeyError"]
  ELSE [graph |-> compressed_of(m, E), error |-> NoError]

\* build_compressed_graph_from_sccs: a defaultdict(set) keyed by the
\* component index of the source of each edge between different components.
\* The dict is a function from its keys: its iteration order is read only to
\* sum over it.
build_compressed_graph_from_sccs(d, components) ==
  compress(scc_map(components), Edges(d))

\* in_degree[v] += 1 for every u in compressed_graph, v in compressed_graph[u]
in_degree(compressed_graph, v) ==
  Cardinality({u \in DOMAIN compressed_graph : v \in compressed_graph[u]})

\* range(len(compressed_graph)): as many nodes as the dict has keys
nodes(compressed_graph) == 0..(Cardinality(DOMAIN compressed_graph) - 1)

\* calculate_routes_needed
calculate_routes_needed(compressed_graph, start_scc) ==
  Cardinality({node \in nodes(compressed_graph) :
                 node # start_scc /\ in_degree(compressed_graph, node) = 0})

Raised(e) == [kind |-> e, value |-> -1]

Returned(x) == [kind |-> "int", value |-> x]

start_scc_of_get(a, components, start_airport) ==
  IF start_airport \in DOMAIN a /\ index_first(components, a[start_airport]) > 0
  THEN [error |-> NoError, value |-> index_first(components, a[start_airport]) - 1]
  ELSE [error |-> "StopIteration", value |-> -1]

\* next(i for i, scc in enumerate(sccs) if self.airports[start_airport] in scc)
\* The generator evaluates self.airports[start_airport] once per component:
\* with no component next() raises StopIteration before any lookup.
start_scc_of(a, components, start_airport) ==
  IF components = <<>> THEN [error |-> "StopIteration", value |-> -1]
  ELSE IF start_airport \notin DOMAIN a THEN [error |-> "KeyError", value |-> -1]
  ELSE IF index_first(components, a[start_airport]) > 0
  THEN [error |-> NoError, value |-> index_first(components, a[start_airport]) - 1]
  ELSE [error |-> "StopIteration", value |-> -1]

\* Steps 2 to 4, given the outcome f of step 1, c of step 2 and s of step 3.
routes_outcome(f, c, s) ==
  [graph |-> f.graph, transposed |-> f.transposed, sccs |-> f.sccs,
   compressed |-> c.graph,
   result |-> IF f.error # NoError THEN Raised(f.error)
              ELSE IF c.error # NoError THEN Raised(c.error)
              ELSE IF s.error # NoError THEN Raised(s.error)
              ELSE Returned(calculate_routes_needed(c.graph, s.value))]

routes_from_sccs(a, f, start_airport) ==
  routes_outcome(f,
                 IF f.error # NoError
                 THEN [graph |-> NoCompressed, error |-> NoError]
                 ELSE build_compressed_graph_from_sccs(f.graph, f.sccs),
                 start_scc_of(a, f.sccs, start_airport))

\* find_minimum_additional_routes.  Returns what the call leaves in
\* self.graph, its locals (sccs, the transposed graph, compressed_graph) and
\* the outcome: the integer returned or the exception raised.
find_minimum_additional_routes(a, d, n, start_airport) ==
  routes_from_sccs(a, find_strongly_connected_components(d, n), start_airport)

-----------------------------------------------------------------------------
\* The program: one Graph object and its callers

NumEdges(d) ==
  Cardinality(UNION {{<<k, i>> : i \in 1..Len(d[k].val)} : k \in 1..Len(d)})

\* The labels a caller passes: the registered ones and one that is not.
Labels == {AirportCodes[i] : i \in 1..(vertices + 1)}

\* The route lists of at most max pairs of labels.
Routes(max) == UNION {[1..len -> Labels \X Labels] : len \in 1..max}

\* The ids a caller passes to add_edge directly: [0, N), the negative ids
\* that index a list of length N, and one id beyond each end.
RawIds == (-(vertices + 1))..vertices

Min(x, y) == IF x <= y THEN x ELSE y

OpAddRoutes == "add_routes"
OpAddEdge == "add_edge"
OpFindMin == "find_minimum_additional_routes"
OpFindSccs == "find_strongly_connected_components"
Finds == {OpFindMin, OpFindSccs}

None == [kind |-> "None", value |-> -1]

\* lastCall: the method called last, its start label, whether it was given
\* a label that is no key of airports, and whether it is an analysis that
\* directly follows another analysis of the same object.
Call(op, start, unknown, repeated) ==
  [op |-> op, start |-> start, unknown |-> unknown, repeated |-> repeated]

\* What add_routes returns (None) or raises.
AddOutcome(r) == IF r.error = NoError THEN None ELSE Raised(r.error)

\* A call of find_minimum_additional_routes with outcome f takes effect:
\* self.graph as the call leaves it, what it returned or raised, and its
\* locals, kept for inspection.
Observe(f) ==
  /\ graph' = f.graph
  /\ sccs' = f.sccs
  /\ transposed' = f.transposed
  /\ compressed' = f.compressed
  /\ result' = f.result

\* The same for a call of find_strongly_connected_components, which returns
\* a list.
ObserveSccs(f) ==
  /\ graph' = f.graph
  /\ sccs' = f.sccs
  /\ transposed' = f.transposed
  /\ compressed' = NoCompressed
  /\ result' = IF f.error = NoError THEN [kind |-> "list", value |-> -1]
               ELSE Raised(f.error)

ObserveDup(f) ==
  /\ dup' = f.graph
  /\ dupResult' = f.result

\* Graph(airports) for the label map of the first n sample airports.
InitWith(maxn) ==
  /\ \E n \in 0..maxn :
       /\ airports = [code \in {AirportCodes[i] : i \in 1..n} |->
                        (CHOOSE i \in 1..n : AirportCodes[i] = code) - 1]
       /\ vertices = n
  /\ graph = <<>>
  /\ lastCall = Call("Graph", "", FALSE, FALSE)
  /\ result = None
  /\ sccs = <<>>
  /\ transposed = <<>>
  /\ compressed = NoCompressed
  /\ dup = <<>>
  /\ dupResult = None

Init == InitWith(MaxVertices)

\* graph.add_routes(routes)
AddRoutes ==
  \E routes \in Routes(Min(MaxBatch, MaxEdges - NumEdges(graph))) :
    /\ graph' = add_routes(airports, graph, routes).graph
    /\ result' = AddOutcome(add_routes(airports, graph, routes))
    /\ lastCall' = Call(OpAddRoutes, "",
                        \E i \in 1..Len(routes) :
                           \/ routes[i][1] \notin DOMAIN airports
                           \/ routes[i][2] \notin DOMAIN airports,
                        FALSE)
    /\ sccs' = <<>>
    /\ transposed' = <<>>
    /\ compressed' = NoCompressed
    /\ UNCHANGED <<airports, vertices, dup, dupResult>>

\* graph.find_strongly_connected_components()
FindStronglyConnectedComponents ==
  /\ ObserveSccs(find_strongly_connected_components(graph, vertices))
  /\ lastCall' = Call(OpFindSccs, "", FALSE, lastCall.op \in Finds)
  /\ UNCHANGED <<airports, vertices, dup, dupResult>>

\* graph.find_minimum_additional_routes(start_airport)
FindMinimumAdditionalRoutes ==
  \E start_airport \in Labels :
    /\ Observe(find_minimum_additional_routes(airports, graph, vertices,
                                              start_airport))
    /\ lastCall' = Call(OpFindMin, start_airport,
                        start_airport \notin DOMAIN airports,
                        lastCall.op \in Finds)
    /\ UNCHANGED <<airports, vertices, dup, dupResult>>

Next == AddRoutes \/ FindStronglyConnectedComponents \/ FindMinimumAdditionalRoutes

Spec == Init /\ [][Next]_vars

\* graph.add_edge(from_airport, to_airport) called with ids directly
AddEdge ==
  \E from_airport \in RawIds, to_airport \in RawIds :
    /\ NumEdges(graph) < MaxRawEdges
    /\ graph' = add_edge(graph, from_airport, to_airport)
    /\ result' = None
    /\ lastCall' = Call(OpAddEdge, "", FALSE, FALSE)
    /\ sccs' = <<>>
    /\ transposed' = <<>>
    /\ compressed' = NoCompressed
    /\ UNCHANGED <<airports, vertices, dup, dupResult>>

InitRaw == InitWith(MaxRawVertices)

NextRaw == AddEdge \/ FindMinimumAdditionalRoutes

\* A caller that bypasses the label map.
SpecRaw == InitRaw /\ [][NextRaw]_vars

\* Two Graph objects over the same airports given the same calls, but that
\* dup is given one edge a second time.
AddRoutesBoth ==
  \E routes \in Routes(Min(MaxBatch, MaxEdges - NumEdges(graph))) :
    /\ graph' = add_routes(airports, graph, routes).graph
    /\ result' = AddOutcome(add_routes(airports, graph, routes))
    /\ dup' = add_routes(airports, dup, routes).graph
    /\ dupResult' = AddOutcome(add_routes(airports, dup, routes))
    /\ lastCall' = Call(OpAddRoutes, "",
                        \E i \in 1..Len(routes) :
                           \/ routes[i][1] \notin DOMAIN airports
                           \/ routes[i][2] \notin DOMAIN airports,
                        FALSE)
    /\ sccs' = <<>>
    /\ transposed' = <<>>
    /\ compressed' = NoCompressed
    /\ UNCHANGED <<airports, vertices>>

\* dup.add_edge(u, v) for an edge (u, v) already present
AddEdgeAgain ==
  \E e \in Edges(dup) :
    /\ NumEdges(dup) = NumEdges(graph)
    /\ dup' = add_edge(dup, e[1], e[2])
    /\ dupResult' = None
    /\ result' = None
    /\ lastCall' = Call(OpAddEdge, "", FALSE, FALSE)
    /\ sccs' = <<>>
    /\ transposed' = <<>>
    /\ compressed' = NoCompressed
    /\ UNCHANGED <<airports, vertices, graph>>

\* One query of both objects after each insertion.
FindMinimumAdditionalRoutesBoth ==
  \E start_airport \in Labels :
    /\ lastCall.op # OpFindMin
    /\ Observe(find_minimum_additional_routes(airports, graph, vertices,
                                              start_airport))
    /\ ObserveDup(find_minimum_additional_routes(airports, dup, vertices,
                                                 start_airport))
    /\ lastCall' = Call(OpFindMin, start_airport,
                        start_airport \notin DOMAIN airports,
                        FALSE)
    /\ UNCHANGED <<airports, vertices>>

NextDup == AddRoutesBoth \/ AddEdgeAgain \/ FindMinimumAdditionalRoutesBoth

SpecDup == Init /\ [][NextDup]_vars

-----------------------------------------------------------------------------
\* Properties

Vertices == 0..(vertices - 1)

\* The vertices reachable from those of S by the edges of E.
RECURSIVE ReachableFrom(_, _)
ReachableFrom(E, S) ==
  IF {e[2] : e \in {x \in E : x[1] \in S}} \subseteq S THEN S
  ELSE ReachableFrom(E, S \cup {e[2] : e \in {x \in E : x[1] \in S}})

Reaches(E, u, v) == v \in ReachableFrom(E, {u})

\* The least number of edges whose addition to E makes every vertex
\* reachable from start, found by trying every set of added edges.
MinimumAdditionalEdges(E, start) ==
  CHOOSE k \in 0..vertices :
    /\ \E A \in SUBSET (Vertices \X Vertices) :
         Cardinality(A) = k /\ ReachableFrom(E \cup A, {start}) = Vertices
    /\ \A A \in SUBSET (Vertices \X Vertices) :
         Cardinality(A) < k => ReachableFrom(E \cup A, {start}) # Vertices

Analysed == lastCall.op \in Finds

ReturnedInt == lastCall.op = OpFindMin /\ result.kind = "int"

\* How many entries of the list l equal x.
Count(l, x) == Cardinality({i \in 1..Len(l) : l[i] = x})

SameComponent(u, v) ==
  \E i \in 1..Len(sccs) : u \in Range(sccs[i]) /\ v \in Range(sccs[i])

\* C1: the integer find_minimum_additional_routes returns is the minimum
\* number of edges whose addition makes every vertex reachable from start.
C1_ReturnsMinimum ==
  ReturnedInt =>
    result.value = MinimumAdditionalEdges(Edges(graph), airports[lastCall.start])

\* C2: the components find_strongly_connected_components returns partition
\* {0..N-1}: every vertex is in exactly one component, exactly once, and
\* nothing else is in any component.
C2_Partition ==
  Analysed =>
    /\ \A v \in Vertices :
         Cardinality({i \in 1..Len(sccs) : v \in Range(sccs[i])}) = 1
    /\ \A i \in 1..Len(sccs) :
         /\ Range(sccs[i]) \subseteq Vertices
         /\ \A v \in Range(sccs[i]) : Count(sccs[i], v) = 1

\* A 2-vertex component and another component were returned.
C2_Witness ==
  /\ lastCall.op = OpFindSccs
  /\ Len(sccs) >= 2
  /\ \E i \in 1..Len(sccs) : Len(sccs[i]) = 2

\* C3: u and v are in the same returned component iff each reaches the
\* other by the edges of the graph; a vertex with no edge is a component of
\* its own.
C3_MutualReachability ==
  Analysed =>
    /\ \A u \in Vertices, v \in Vertices :
         SameComponent(u, v) <=>
           (Reaches(Edges(graph), u, v) /\ Reaches(Edges(graph), v, u))
    /\ \A v \in Vertices :
         (\A e \in Edges(graph) : e[1] # v /\ e[2] # v) => <<v>> \in Range(sccs)

\* A cycle was collapsed into one component and a vertex with no edge was
\* returned as a component of its own.
C3_Witness ==
  /\ Analysed
  /\ \E u \in Vertices, v \in Vertices : u # v /\ SameComponent(u, v)
  /\ \E v \in Vertices :
       /\ \A e \in Edges(graph) : e[1] # v /\ e[2] # v
       /\ <<v>> \in Range(sccs)

\* The edges of the compressed graph, and the nodes reachable from node c
\* by one edge or more.
CompressedEdges ==
  {e \in (DOMAIN compressed) \X (0..vertices) : e[2] \in compressed[e[1]]}

CompressedSuccessors(c) ==
  ReachableFrom(CompressedEdges, {v \in 0..vertices : <<c, v>> \in CompressedEdges})

\* C4: the compressed graph has no cycle, and no component index is in its
\* own destination set.
C4_Acyclic ==
  lastCall.op = OpFindMin =>
    /\ \A c \in DOMAIN compressed : c \notin compressed[c]
    /\ \A c \in DOMAIN compressed :
         \/ CompressedEdges = {}
         \/ c \notin CompressedSuccessors(c)

\* An edge inside a component was dropped and an edge between components
\* kept.
C4_Witness ==
  /\ lastCall.op = OpFindMin
  /\ compressed # NoCompressed
  /\ \E e \in Edges(graph) : SameComponent(e[1], e[2])

\* C5: an invocation of find_minimum_additional_routes that directly
\* follows one with the same start label returns the same result, and an
\* analysis that directly follows an analysis finds self.graph as it leaves
\* it (so the result of any later invocation is that of the second).
C5_RepeatedInvocation ==
  [][/\ (lastCall.op = OpFindMin /\ lastCall'.op = OpFindMin
          /\ lastCall'.start = lastCall.start) => result' = result
     /\ (lastCall.op \in Finds /\ lastCall'.op \in Finds) => graph' = graph]_vars

\* A second invocation returned an integer from a dict in which the first
\* had created keys.
C5_Witness ==
  /\ ReturnedInt
  /\ lastCall.repeated
  /\ result.value >= 1
  /\ \E k \in 1..Len(graph) : graph[k].val = <<>>

\* C6: the object that was given an edge a second time returns what the
\* object that was not returns, and no call of it raises unless the other's
\* does.
C6_IdempotentInsertion ==
  lastCall.op = OpFindMin => dupResult = result

\* Both objects returned an integer, one of them holding an edge twice with
\* another edge inserted after it.
C6_Witness ==
  /\ ReturnedInt
  /\ NumEdges(dup) > NumEdges(graph)
  /\ NumEdges(graph) >= 2
  /\ result.value >= 1

\* C7 as stated: a call given a label that is no key of airports raises
\* KeyError.
C7_UnknownLabelKeyError ==
  lastCall.unknown => result.kind = "KeyError"

\* C7 amended: add_routes always raises KeyError for such a label, and
\* find_minimum_additional_routes raises KeyError for it unless the label
\* map is empty, when it raises StopIteration; neither returns.
C7_UnknownLabelRaises ==
  lastCall.unknown =>
    result.kind = IF lastCall.op = OpFindMin /\ vertices = 0
                  THEN "StopIteration" ELSE "KeyError"

\* find_minimum_additional_routes raised KeyError for an unregistered start
\* label on a graph with edges.
C7_Witness ==
  /\ lastCall.op = OpFindMin
  /\ lastCall.unknown
  /\ NumEdges(graph) >= 1
  /\ result.kind = "KeyError"

OutOfRange(x) == x < 0 \/ x >= vertices

\* C8 as stated: with an edge that has an endpoint outside [0, N),
\* find_minimum_additional_routes raises IndexError.
C8_OutOfRangeIndexError ==
  (lastCall.op = OpFindMin
     /\ (\E e \in Edges(graph) : OutOfRange(e[1]) \/ OutOfRange(e[2])))
  => result.kind = "IndexError"

\* C8 amended: if no endpoint of any edge is in [-N, -1] and some edge has
\* exactly one endpoint in [0, N), find_minimum_additional_routes raises
\* IndexError.
C8_OneEndpointOutOfRange ==
  (lastCall.op = OpFindMin
     /\ (\A e \in Edges(graph) : \A i \in 1..2 : e[i] \notin (-vertices)..(-1))
     /\ (\E x \in Edges(graph) : OutOfRange(x[1]) # OutOfRange(x[2])))
  => result.kind = "IndexError"

\* IndexError was raised for an edge from an id beyond N into [0, N), which
\* only the second pass reads.
C8_Witness ==
  /\ lastCall.op = OpFindMin
  /\ result.kind = "IndexError"
  /\ \E e \in Edges(graph) : e[1] >= vertices /\ ~OutOfRange(e[2])

\* C9: the count is over every component index: the integer returned is
\* the number of components other than the start's that no edge of the
\* compressed graph enters.
C9_CountsEveryComponent ==
  ReturnedInt =>
    result.value =
      Cardinality({c \in 0..(Len(sccs) - 1) :
                     /\ c # index_first(sccs, airports[lastCall.start]) - 1
                     /\ in_degree(compressed, c) = 0})

\* C10: an analysis leaves every out-neighbour list of self.graph as it
\* was, and the transposed graph holds exactly the reversed edges, as many
\* times each.
C10_OriginalUnchanged ==
  [][lastCall'.op \in Finds =>
       /\ \A k \in Keys(graph) \cup Keys(graph') \cup Vertices :
            Get(graph', k) = Get(graph, k)
       /\ Keys(transposed') \subseteq Vertices
       /\ \A u \in Vertices, v \in Vertices :
            Count(Get(transposed', v), u) = Count(Get(graph', u), v)]_vars

\* An analysis created keys in self.graph and built a transposed graph with
\* edges.
C10_Witness ==
  /\ Analysed
  /\ ~lastCall.repeated
  /\ \E k \in 1..Len(graph) : graph[k].val = <<>>
  /\ NumEdges(transposed) >= 2

====
